---- MODULE Spec2Model ----
(***************************************************************************)
(* State-machine model of the colour-picker front end.                     *)
(*                                                                         *)
(* Two revisions of the App component are modelled:                        *)
(*   - the frame-polling revision, src/frontend/src/App.jsx  (SpecPoll)    *)
(*   - the WebRTC revision,        src/unnamed/part_002      (SpecRtc)     *)
(* handleFlipCamera and detectMobile are textually the same in both (and   *)
(* in src/unnamed/part_000) and are modelled once.                         *)
(*                                                                         *)
(* A React state setter called after the component has unmounted has no    *)
(* effect; a state change and the effects it triggers (cleanup of the      *)
(* previous effect run, then the new run up to its first await) form one   *)
(* step.  Every await is a separate step that the browser may take at any  *)
(* later time, with either outcome of the awaited promise.                 *)
(***************************************************************************)
EXTENDS Integers, Sequences, FiniteSets, TLC

\* ---------------------------------------------------------------- bounds
\* Camera effect runs per mount (the initial run plus MaxRuns - 1 flips).
MaxRuns == 2
\* Frames captured by the polling timer per mount.
MaxFrames == 2

VARIABLES
    \* React state and refs common to the revisions
    mounted,          \* the component is mounted
    isLoaded,         \* useState(false)
    isMobile,         \* useState(false), set by detectMobile
    facingMode,       \* useState("user")
    srcObject,        \* videoRef.current.srcObject: 0 = not set, r = stream of run r
    \* camera / WebRTC effect runs
    nRuns,            \* number of runs of the [facingMode] effect so far
    pc,               \* pc[r]: where the async function of run r is waiting
    live,             \* local streams (by run) that have a track not yet stopped
    \* frame-polling revision only
    useBackendStream, \* useState(false)
    analysis,         \* useState(null)
    timers,           \* number of active setInterval timers
    nFrames,          \* frames captured so far
    blobs,            \* frames handed to canvas.toBlob, callback still pending
    inflight,         \* frames whose POST /analyze is awaiting its response
    shownFrame,       \* history: the frame whose response `analysis` holds (0: none)
    \* WebRTC revision only
    closed,           \* runs whose peer connection was closed by the cleanup
    tracksAdded,      \* runs that added the local tracks to the connection
    ontrackSet,       \* runs that installed pc.ontrack
    offerCreated,     \* runs whose createOffer() resolved
    localSet,         \* runs whose setLocalDescription(offer) resolved
    posted,           \* posted[r]: POSTs to /offer made by run r
    answer,           \* answer[r]: JSON body received for run r's POST
    remoteDesc,       \* remoteDesc[r]: argument of setRemoteDescription
    applied,          \* applied[r]: calls of setRemoteDescription by run r
    \* history: the handler that made the last step
    ev

commonVars == <<mounted, isLoaded, isMobile, facingMode, srcObject, nRuns, pc, live>>
pollVars == <<useBackendStream, analysis, timers, nFrames, blobs, inflight, shownFrame>>
rtcVars == <<closed, tracksAdded, ontrackSet, offerCreated, localSet, posted, answer,
             remoteDesc, applied>>
vars == <<commonVars, pollVars, rtcVars, ev>>

Runs == 1..MaxRuns
Frames == 1..MaxFrames
Null == "null"
\* JSON bodies the backend may return to /analyze (any JSON is accepted).
Data == {"d1", "d2"}
\* JSON bodies the backend may return to /offer.
Answers == {"a1", "a2"}

Event(t, a, b) == [type |-> t, arg |-> a, body |-> b]

\* ------------------------------------------------ shared pure functions

\* detectMobile: touch device and narrow window.
DetectMobile(isTouchDevice, isSmallScreen) == isTouchDevice /\ isSmallScreen

\* The updater handed to setFacingMode.
OtherFacing(prev) == IF prev = "user" THEN "environment" ELSE "user"

\* Faulty variant of handleFlipCamera: the isMobile guard is missing.
FlipNoGuard(mobile, prev) == OtherFacing(prev)

\* handleFlipCamera, as a function of the state it reads: the facingMode after
\* the click.
HandleFlipCamera(mobile, prev) == IF ~mobile THEN prev ELSE OtherFacing(prev)

\* ======================================================================
\*                 Frame-polling revision (App.jsx)
\* ======================================================================

\* videoRef.current is set exactly while the <VideoFeed> is rendered.
VideoRefSet == mounted /\ ~useBackendStream

\* Faulty variant of the polling effect: it returns no cleanup, so its timer
\* is never cleared.
PollingNoCleanup(old, new, t) == IF old = new THEN t ELSE IF new THEN t ELSE t + 1

\* The polling effect, deps [useBackendStream]: the number of timers after the
\* state goes from `old` to `new` (cleanup of the old run, then the new run).
PollingEffect(old, new, t) ==
    IF old = new THEN t
    ELSE (IF old THEN t ELSE t - 1) + (IF new THEN 0 ELSE 1)

\* The cleanup of the camera effect: stop the tracks of the stream the video
\* element shows, if the ref is still attached.
CameraCleanup(refAttached, l) ==
    IF refAttached /\ srcObject # 0 THEN l \ {srcObject} ELSE l

InitCommon ==
    /\ mounted = TRUE
    /\ isLoaded = FALSE
    /\ \E touch \in BOOLEAN, small \in BOOLEAN : isMobile = DetectMobile(touch, small)
    /\ facingMode = "user"
    /\ srcObject = 0
    /\ nRuns = 1
    /\ pc = [r \in Runs |-> IF r = 1 THEN "gum" ELSE "idle"]
    /\ live = {}

RtcIdle ==
    /\ closed = {}
    /\ tracksAdded = {}
    /\ ontrackSet = {}
    /\ offerCreated = {}
    /\ localSet = {}
    /\ posted = [r \in Runs |-> 0]
    /\ answer = [r \in Runs |-> Null]
    /\ remoteDesc = [r \in Runs |-> Null]
    /\ applied = [r \in Runs |-> 0]

PollIdle ==
    /\ useBackendStream = FALSE
    /\ analysis = Null
    /\ timers = 0
    /\ nFrames = 0
    /\ blobs = {}
    /\ inflight = {}
    /\ shownFrame = 0

\* After the first render and the first run of the three effects.
InitPoll ==
    /\ InitCommon
    /\ useBackendStream = FALSE
    /\ analysis = Null
    /\ timers = PollingEffect(TRUE, FALSE, 0)
    /\ nFrames = 0
    /\ blobs = {}
    /\ inflight = {}
    /\ shownFrame = 0
    /\ RtcIdle
    /\ ev = Event("mount", 0, Null)

\* window "resize": detectMobile runs again.
Resize ==
    /\ mounted
    /\ \E touch \in BOOLEAN, small \in BOOLEAN : isMobile' = DetectMobile(touch, small)
    /\ ev' = Event("resize", 0, Null)
    /\ UNCHANGED <<mounted, isLoaded, facingMode, srcObject, nRuns, pc, live>>
    /\ UNCHANGED <<pollVars, rtcVars>>

\* Click on the flip button.  A changed facingMode re-runs the camera effect:
\* cleanup of the previous run, then startCamera up to its await.
FlipPoll ==
    /\ mounted
    /\ facingMode' = HandleFlipCamera(isMobile, facingMode)
    /\ IF facingMode' # facingMode
       THEN /\ nRuns < MaxRuns
            /\ live' = CameraCleanup(VideoRefSet, live)
            /\ nRuns' = nRuns + 1
            /\ pc' = [pc EXCEPT ![nRuns + 1] = "gum"]
       ELSE UNCHANGED <<live, nRuns, pc>>
    /\ ev' = Event("click", 0, Null)
    /\ UNCHANGED <<mounted, isLoaded, isMobile, srcObject>>
    /\ UNCHANGED <<pollVars, rtcVars>>

\* Faulty variant of the catch block: setIsLoaded(true) is missing.
CatchKeepsLoading ==
    /\ isLoaded' = isLoaded
    /\ IF mounted
       THEN /\ useBackendStream' = TRUE
            /\ timers' = PollingEffect(useBackendStream, TRUE, timers)
            /\ srcObject' = 0
       ELSE UNCHANGED <<useBackendStream, timers, srcObject>>

\* The catch block of startCamera: fall back and stop "Connecting...".  With
\* the fallback on, the video element is no longer rendered.
CameraCatch ==
    IF mounted
    THEN /\ useBackendStream' = TRUE
         /\ isLoaded' = TRUE
         /\ timers' = PollingEffect(useBackendStream, TRUE, timers)
         /\ srcObject' = 0
    ELSE UNCHANGED <<useBackendStream, isLoaded, timers, srcObject>>

\* getUserMedia of run r resolves with a stream.
GumResolve(r) ==
    /\ pc[r] = "gum"
    /\ live' = live \cup {r}
    /\ IF VideoRefSet
       THEN /\ srcObject' = r
            /\ pc' = [pc EXCEPT ![r] = "play"]
       ELSE /\ srcObject' = srcObject
            /\ pc' = [pc EXCEPT ![r] = "done"]
    /\ ev' = Event("gumResolve", 0, Null)
    /\ UNCHANGED <<mounted, isLoaded, isMobile, facingMode, nRuns>>
    /\ UNCHANGED <<pollVars, rtcVars>>

\* getUserMedia of run r rejects.
GumReject(r) ==
    /\ pc[r] = "gum"
    /\ CameraCatch
    /\ pc' = [pc EXCEPT ![r] = "done"]
    /\ ev' = Event("gumReject", 0, Null)
    /\ UNCHANGED <<mounted, isMobile, facingMode, nRuns, live>>
    /\ UNCHANGED <<analysis, nFrames, blobs, inflight, shownFrame, rtcVars>>

\* videoRef.current.play() of run r resolves.
PlayResolve(r) ==
    /\ pc[r] = "play"
    /\ IF mounted
       THEN /\ isLoaded' = TRUE
            /\ useBackendStream' = FALSE
            /\ timers' = PollingEffect(useBackendStream, FALSE, timers)
       ELSE UNCHANGED <<isLoaded, useBackendStream, timers>>
    /\ pc' = [pc EXCEPT ![r] = "done"]
    /\ ev' = Event("playResolve", 0, Null)
    /\ UNCHANGED <<mounted, isMobile, facingMode, srcObject, nRuns, live>>
    /\ UNCHANGED <<analysis, nFrames, blobs, inflight, shownFrame, rtcVars>>

\* videoRef.current.play() of run r rejects.
PlayReject(r) ==
    /\ pc[r] = "play"
    /\ CameraCatch
    /\ pc' = [pc EXCEPT ![r] = "done"]
    /\ ev' = Event("playReject", 0, Null)
    /\ UNCHANGED <<mounted, isMobile, facingMode, nRuns, live>>
    /\ UNCHANGED <<analysis, nFrames, blobs, inflight, shownFrame, rtcVars>>

\* The setInterval callback: draw the frame and hand it to canvas.toBlob.
\* hasSrc records whether the video had a source, without which the canvas is
\* empty and the blob null.
Tick ==
    /\ timers > 0
    /\ nFrames < MaxFrames
    /\ IF VideoRefSet
       THEN /\ nFrames' = nFrames + 1
            /\ blobs' = blobs \cup {[frame |-> nFrames + 1, hasSrc |-> srcObject # 0]}
       ELSE UNCHANGED <<nFrames, blobs>>
    /\ ev' = Event("tick", 0, Null)
    /\ UNCHANGED <<commonVars, useBackendStream, analysis, timers, inflight, shownFrame>>
    /\ UNCHANGED rtcVars

\* The toBlob callback: a null blob is dropped, any other is POSTed.
BlobCallback(b, ok, fl) == IF ok THEN fl \cup {b.frame} ELSE fl

BlobReady(b, ok) ==
    /\ b \in blobs
    /\ ok => b.hasSrc
    /\ blobs' = blobs \ {b}
    /\ inflight' = BlobCallback(b, ok, inflight)
    /\ ev' = Event(IF ok THEN "fetch" ELSE "blobNull", 0, Null)
    /\ UNCHANGED <<commonVars, useBackendStream, analysis, timers, nFrames, shownFrame>>
    /\ UNCHANGED rtcVars

\* fetch rejects (network error): the catch block logs it.
FetchFail(f) ==
    /\ f \in inflight
    /\ inflight' = inflight \ {f}
    /\ ev' = Event("fetchFail", 0, Null)
    /\ UNCHANGED <<commonVars, useBackendStream, analysis, timers, nFrames, blobs, shownFrame>>
    /\ UNCHANGED rtcVars

\* Faulty variant of the catch block: it resets analysis.
ParseFailClears(f) ==
    /\ f \in inflight
    /\ inflight' = inflight \ {f}
    /\ analysis' = Null
    /\ ev' = Event("parseFail", 0, Null)
    /\ UNCHANGED <<commonVars, useBackendStream, timers, nFrames, blobs, shownFrame>>
    /\ UNCHANGED rtcVars

\* res.json() rejects (the body is not JSON): the catch block logs it.
ParseFail(f) ==
    /\ f \in inflight
    /\ inflight' = inflight \ {f}
    /\ ev' = Event("parseFail", 0, Null)
    /\ UNCHANGED <<commonVars, useBackendStream, analysis, timers, nFrames, blobs, shownFrame>>
    /\ UNCHANGED rtcVars

\* Faulty variant of setAnalysis: only the first response is kept.
SetAnalysisFirstOnly(cur, data) == IF cur.body = Null THEN data ELSE cur

\* setAnalysis(data): the new state value from the current one and the parsed
\* body, each tagged with the frame whose response it is.
SetAnalysis(cur, data) == data

\* res.json() resolves with body d.
JsonReply(f, d) ==
    /\ f \in inflight
    /\ inflight' = inflight \ {f}
    /\ LET new == SetAnalysis([frame |-> shownFrame, body |-> analysis],
                              [frame |-> f, body |-> d])
       IN  IF mounted
           THEN analysis' = new.body /\ shownFrame' = new.frame
           ELSE UNCHANGED <<analysis, shownFrame>>
    /\ ev' = Event("json", f, d)
    /\ UNCHANGED <<commonVars, useBackendStream, timers, nFrames, blobs>>
    /\ UNCHANGED rtcVars

\* The component unmounts: the cleanups of the effects run.  Whether the video
\* ref is still attached when the camera cleanup runs depends on the React
\* version (passive cleanups run after refs are detached since React 17).
UnmountPoll ==
    /\ mounted
    /\ mounted' = FALSE
    /\ \E refAttached \in BOOLEAN : live' = CameraCleanup(refAttached /\ VideoRefSet, live)
    /\ timers' = PollingEffect(useBackendStream, TRUE, timers)
    /\ ev' = Event("unmount", 0, Null)
    /\ UNCHANGED <<isLoaded, isMobile, facingMode, srcObject, nRuns, pc>>
    /\ UNCHANGED <<useBackendStream, analysis, nFrames, blobs, inflight, shownFrame, rtcVars>>

NextPoll ==
    \/ Resize
    \/ FlipPoll
    \/ \E r \in Runs : GumResolve(r)
    \/ \E r \in Runs : GumReject(r)
    \/ \E r \in Runs : PlayResolve(r)
    \/ \E r \in Runs : PlayReject(r)
    \/ Tick
    \/ \E f \in Frames, h \in BOOLEAN, ok \in BOOLEAN :
           BlobReady([frame |-> f, hasSrc |-> h], ok)
    \/ \E f \in Frames : FetchFail(f)
    \/ \E f \in Frames : ParseFail(f)
    \/ \E f \in Frames, d \in Data : JsonReply(f, d)
    \/ UnmountPoll

SpecPoll == InitPoll /\ [][NextPoll]_vars

\* The play() promise awaited by the initial run of startCamera settles.
FairPoll == SpecPoll /\ WF_vars(PlayResolve(1) \/ PlayReject(1))

\* ======================================================================
\*                 WebRTC revision (part_002)
\* ======================================================================

\* After the first render and the first run of the effects: startWebRTC has
\* created its peer connection and awaits getUserMedia.
InitRtc ==
    /\ InitCommon
    /\ PollIdle
    /\ RtcIdle
    /\ ev = Event("mount", 0, Null)

\* The cleanup of the WebRTC effect: pc?.close() on the connection of the run
\* being cleaned up.  The local stream is not touched.
RtcCleanup(r, c) == c \cup {r}

\* Click on the flip button.  A changed facingMode re-runs the WebRTC effect:
\* cleanup of the previous run, then startWebRTC up to its first await.
FlipRtc ==
    /\ mounted
    /\ facingMode' = HandleFlipCamera(isMobile, facingMode)
    /\ IF facingMode' # facingMode
       THEN /\ nRuns < MaxRuns
            /\ closed' = RtcCleanup(nRuns, closed)
            /\ nRuns' = nRuns + 1
            /\ pc' = [pc EXCEPT ![nRuns + 1] = "gum"]
       ELSE UNCHANGED <<closed, nRuns, pc>>
    /\ ev' = Event("click", 0, Null)
    /\ UNCHANGED <<mounted, isLoaded, isMobile, srcObject, live, pollVars>>
    /\ UNCHANGED <<tracksAdded, ontrackSet, offerCreated, localSet, posted, answer,
                   remoteDesc, applied>>

\* getUserMedia of run r resolves: the tracks are added (addTrack throws on a
\* closed connection), ontrack is installed and createOffer is called.
RtcGumResolve(r) ==
    /\ pc[r] = "gum"
    /\ live' = live \cup {r}
    /\ IF r \in closed
       THEN /\ pc' = [pc EXCEPT ![r] = "unhandled"]
            /\ UNCHANGED <<tracksAdded, ontrackSet>>
       ELSE /\ tracksAdded' = tracksAdded \cup {r}
            /\ ontrackSet' = ontrackSet \cup {r}
            /\ pc' = [pc EXCEPT ![r] = "createOffer"]
    /\ ev' = Event("gumResolve", 0, Null)
    /\ UNCHANGED <<mounted, isLoaded, isMobile, facingMode, srcObject, nRuns, pollVars>>
    /\ UNCHANGED <<closed, offerCreated, localSet, posted, answer, remoteDesc, applied>>

\* getUserMedia of run r rejects: startWebRTC has no try/catch and its caller
\* no .catch, so the rejection is unhandled and nothing else happens.
RtcGumReject(r) ==
    /\ pc[r] = "gum"
    /\ pc' = [pc EXCEPT ![r] = "unhandledGum"]
    /\ ev' = Event("gumReject", 0, Null)
    /\ UNCHANGED <<mounted, isLoaded, isMobile, facingMode, srcObject, nRuns, live>>
    /\ UNCHANGED <<pollVars, rtcVars>>

\* What follows `await pc.setLocalDescription(offer)`: the POST to /offer.
PostOffer(r) ==
    /\ posted' = [posted EXCEPT ![r] = @ + 1]
    /\ pc' = [pc EXCEPT ![r] = "fetch"]

\* Faulty variant: the offer is POSTed without awaiting setLocalDescription.
CreateOfferPostsEarly(r, ok) ==
    /\ pc[r] = "createOffer"
    /\ ok => r \notin closed
    /\ IF ok
       THEN offerCreated' = offerCreated \cup {r} /\ PostOffer(r)
       ELSE pc' = [pc EXCEPT ![r] = "unhandled"] /\ UNCHANGED <<offerCreated, posted>>
    /\ ev' = Event(IF ok THEN "offer" ELSE "offerFail", 0, Null)
    /\ UNCHANGED <<mounted, isLoaded, isMobile, facingMode, srcObject, nRuns, live>>
    /\ UNCHANGED <<pollVars, closed, tracksAdded, ontrackSet, localSet, answer,
                   remoteDesc, applied>>

\* createOffer of run r settles (it cannot succeed on a closed connection);
\* on success setLocalDescription(offer) is called.
CreateOfferSettle(r, ok) ==
    /\ pc[r] = "createOffer"
    /\ ok => r \notin closed
    /\ IF ok
       THEN /\ offerCreated' = offerCreated \cup {r}
            /\ pc' = [pc EXCEPT ![r] = "setLocal"]
       ELSE /\ pc' = [pc EXCEPT ![r] = "unhandled"]
            /\ UNCHANGED offerCreated
    /\ ev' = Event(IF ok THEN "offer" ELSE "offerFail", 0, Null)
    /\ UNCHANGED <<mounted, isLoaded, isMobile, facingMode, srcObject, nRuns, live>>
    /\ UNCHANGED <<pollVars, closed, tracksAdded, ontrackSet, localSet, posted, answer,
                   remoteDesc, applied>>

\* setLocalDescription(offer) of run r settles; on success the offer is POSTed.
SetLocalSettle(r, ok) ==
    /\ pc[r] = "setLocal"
    /\ ok => r \notin closed
    /\ IF ok
       THEN /\ localSet' = localSet \cup {r}
            /\ PostOffer(r)
       ELSE /\ pc' = [pc EXCEPT ![r] = "unhandled"]
            /\ UNCHANGED <<localSet, posted>>
    /\ ev' = Event(IF ok THEN "local" ELSE "localFail", 0, Null)
    /\ UNCHANGED <<mounted, isLoaded, isMobile, facingMode, srcObject, nRuns, live>>
    /\ UNCHANGED <<pollVars, closed, tracksAdded, ontrackSet, offerCreated, answer,
                   remoteDesc, applied>>

\* Faulty variant: a failed POST is retried once.
OfferFailRetries(r) ==
    /\ pc[r] = "fetch"
    /\ posted[r] < 2
    /\ PostOffer(r)
    /\ ev' = Event("postFail", 0, Null)
    /\ UNCHANGED <<mounted, isLoaded, isMobile, facingMode, srcObject, nRuns, live>>
    /\ UNCHANGED <<pollVars, closed, tracksAdded, ontrackSet, offerCreated, localSet,
                   answer, remoteDesc, applied>>

\* fetch of run r rejects, or res.json() rejects: unhandled, no retry.
OfferFail(r) ==
    /\ pc[r] = "fetch"
    /\ pc' = [pc EXCEPT ![r] = "unhandled"]
    /\ ev' = Event("postFail", 0, Null)
    /\ UNCHANGED <<mounted, isLoaded, isMobile, facingMode, srcObject, nRuns, live>>
    /\ UNCHANGED <<pollVars, rtcVars>>

\* res.json() of run r resolves with a: setRemoteDescription(a) is called.
OfferAnswer(r, a) ==
    /\ pc[r] = "fetch"
    /\ answer' = [answer EXCEPT ![r] = a]
    /\ remoteDesc' = [remoteDesc EXCEPT ![r] = a]
    /\ applied' = [applied EXCEPT ![r] = @ + 1]
    /\ pc' = [pc EXCEPT ![r] = "setRemote"]
    /\ ev' = Event("answer", 0, a)
    /\ UNCHANGED <<mounted, isLoaded, isMobile, facingMode, srcObject, nRuns, live>>
    /\ UNCHANGED <<pollVars, closed, tracksAdded, ontrackSet, offerCreated, localSet,
                   posted>>

\* setRemoteDescription of run r settles.
SetRemoteSettle(r, ok) ==
    /\ pc[r] = "setRemote"
    /\ ok => r \notin closed
    /\ pc' = [pc EXCEPT ![r] = IF ok THEN "done" ELSE "unhandled"]
    /\ ev' = Event(IF ok THEN "remoteOk" ELSE "remoteFail", 0, Null)
    /\ UNCHANGED <<mounted, isLoaded, isMobile, facingMode, srcObject, nRuns, live>>
    /\ UNCHANGED <<pollVars, rtcVars>>

\* pc.ontrack of run r: the backend's track arrives, which it can once the
\* answer is being applied and while the connection is open.
RemoteTrack(r) ==
    /\ r \in ontrackSet
    /\ pc[r] \in {"setRemote", "done"}
    /\ r \notin closed
    /\ IF mounted
       THEN srcObject' = r /\ isLoaded' = TRUE
       ELSE UNCHANGED <<srcObject, isLoaded>>
    /\ ev' = Event("track", 0, Null)
    /\ UNCHANGED <<mounted, isMobile, facingMode, nRuns, pc, live>>
    /\ UNCHANGED <<pollVars, rtcVars>>

\* The component unmounts: the cleanup of the current run closes its
\* connection.
UnmountRtc ==
    /\ mounted
    /\ mounted' = FALSE
    /\ closed' = RtcCleanup(nRuns, closed)
    /\ ev' = Event("unmount", 0, Null)
    /\ UNCHANGED <<isLoaded, isMobile, facingMode, srcObject, nRuns, pc, live, pollVars>>
    /\ UNCHANGED <<tracksAdded, ontrackSet, offerCreated, localSet, posted, answer,
                   remoteDesc, applied>>

NextRtc ==
    \/ Resize
    \/ FlipRtc
    \/ \E r \in Runs : RtcGumResolve(r)
    \/ \E r \in Runs : RtcGumReject(r)
    \/ \E r \in Runs, ok \in BOOLEAN : CreateOfferSettle(r, ok)
    \/ \E r \in Runs, ok \in BOOLEAN : SetLocalSettle(r, ok)
    \/ \E r \in Runs : OfferFail(r)
    \/ \E r \in Runs, a \in Answers : OfferAnswer(r, a)
    \/ \E r \in Runs, ok \in BOOLEAN : SetRemoteSettle(r, ok)
    \/ \E r \in Runs : RemoteTrack(r)
    \/ UnmountRtc

SpecRtc == InitRtc /\ [][NextRtc]_vars

\* ======================================================================
\*                              Properties
\* ======================================================================

RECURSIVE SumOver(_, _)
SumOver(f, S) == IF S = {} THEN 0 ELSE LET x == CHOOSE y \in S : TRUE
                                       IN  f[x] + SumOver(f, S \ {x})

\* The JSX condition of the "Connecting to camera..." indicator.
LoadingShown == mounted /\ ~isLoaded

\* C1 (as stated): a rejected getUserMedia call never ends as an unhandled
\* error with no fallback attempted.  Checked on the WebRTC revision, where
\* the rejection leaves startWebRTC through no catch block.
C1_CameraFailureHandled == \A r \in Runs : pc[r] # "unhandledGum"

\* C2 (as stated): no /analyze request is started while useBackendStream is
\* true or after the unmount, and exactly one polling timer is active while
\* useBackendStream is false and the component is mounted.
C2_NoRequestOffCamera ==
    /\ [][ev'.type = "fetch" => (mounted' /\ ~useBackendStream')]_vars
    /\ [](mounted /\ ~useBackendStream => timers = 1)

\* C2 (amended): exactly one polling timer is active while useBackendStream
\* is false and the component is mounted and none otherwise; a frame is
\* captured only then; and a request is started only by the toBlob callback
\* of a captured frame (which may run after the timer has been cleared).
C2_CaptureOnlyOnCamera ==
    /\ [](timers = IF mounted /\ ~useBackendStream THEN 1 ELSE 0)
    /\ [][nFrames' # nFrames => (mounted /\ ~useBackendStream /\ ev'.type = "tick")]_vars
    /\ [][inflight' # inflight /\ inflight \subseteq inflight' =>
            /\ ev'.type = "fetch"
            /\ \E b \in blobs : b.hasSrc /\ inflight' = inflight \cup {b.frame}]_vars

\* C2 witness: a request has just been started although the fallback is on.
C2_Witness == ev.type = "fetch" /\ mounted /\ useBackendStream /\ timers = 0

\* C3: analysis changes only on a parsed /analyze response and then equals
\* the parsed body; a failed request or an unparsable body leaves analysis
\* and the polling timer as they were.
C3_AnalysisOnlyFromJson ==
    [][/\ analysis' # analysis => (ev'.type = "json" /\ analysis' = ev'.body)
       /\ (ev'.type = "json" /\ mounted) => analysis' = ev'.body
       /\ ev'.type \in {"fetchFail", "parseFail"} =>
              (analysis' = analysis /\ timers' = timers)]_vars

\* C3 witness: a body failed to parse after an earlier response was shown, and
\* the timer is still running.
C3_Witness == ev.type = "parseFail" /\ analysis \in Data /\ timers = 1

\* C4 (as stated): per mount at most one offer is POSTed and at most one
\* answer applied, whatever flips occur.
C4_OneOfferPerMount == SumOver(posted, Runs) <= 1 /\ SumOver(applied, Runs) <= 1

\* C4 (amended): each run of the WebRTC effect (the mount and every change of
\* facingMode) POSTs at most one offer and applies at most one answer, so a
\* mount with k effective flips makes at most k + 1 of each.
C4_OneOfferPerRun ==
    /\ \A r \in Runs : posted[r] <= 1 /\ applied[r] <= 1
    /\ \A r \in Runs : r > nRuns => (posted[r] = 0 /\ applied[r] = 0)
    /\ SumOver(posted, Runs) <= nRuns
    /\ SumOver(applied, Runs) <= nRuns

\* C4 witness: after a flip, two runs have each POSTed an offer and applied an
\* answer.
C4_Witness == \A r \in 1..2 : posted[r] = 1 /\ applied[r] = 1

\* C5 (as stated): once unmounted with every promise settled no acquired local
\* track is left un-stopped, and while mounted at most one acquired stream has
\* live tracks.
C5_TracksStopped ==
    /\ mounted => Cardinality(live) <= 1
    /\ (~mounted /\ \A r \in Runs : pc[r] \notin {"gum", "play"}) => live = {}

C7_LoadedForGood ==
    /\ (pc[1] # "gum") ~> ~LoadingShown
    /\ [][isLoaded => isLoaded']_vars
    /\ [][~mounted => isLoaded' = isLoaded]_vars

\* C7 witness: loaded through the fallback of the initial request, and still
\* loaded after a flip whose camera request failed as well.
C7_Witness ==
    /\ mounted /\ isLoaded /\ ~LoadingShown
    /\ nRuns = 2 /\ pc[1] = "done" /\ ev.type = "gumReject" /\ useBackendStream

\* C8: in each run the tracks are added and ontrack installed before the offer
\* is created, the offer is POSTed only once setLocalDescription completed,
\* setRemoteDescription is called only after and with the JSON answer, and
\* isLoaded becomes true only on a remote track event.
C8_NegotiationOrder ==
    /\ [](\A r \in Runs :
            /\ (pc[r] = "createOffer" \/ r \in offerCreated) =>
                   (r \in tracksAdded /\ r \in ontrackSet)
            /\ r \in localSet => r \in offerCreated
            /\ posted[r] > 0 => r \in localSet
            /\ answer[r] # Null => posted[r] > 0
            /\ applied[r] > 0 => (answer[r] \in Answers /\ remoteDesc[r] = answer[r])
            /\ applied[r] = 0 => remoteDesc[r] = Null)
    /\ [][isLoaded' # isLoaded => (ev'.type = "track" /\ isLoaded')]_vars

\* C8 witness: a negotiation ran to the end and the remote track was shown.
C8_Witness ==
    /\ ev.type = "track" /\ isLoaded /\ srcObject = 1
    /\ pc[1] = "done" /\ remoteDesc[1] \in Answers

\* C9 (as stated): the displayed analysis is never replaced by the response to
\* an older frame than the one it shows.
C9_NeverOlderFrame == [][shownFrame' >= shownFrame]_vars

\* C9 (amended): analysis is the body of the response that arrived last,
\* whichever frame it answers.
C9_ShowsLastArrived ==
    (ev.type = "json" /\ mounted) => (shownFrame = ev.arg /\ analysis = ev.body)

\* C9 witness: the response to the newer frame is shown while the request for
\* the older frame is still in flight.
C9_Witness == ev.type = "json" /\ mounted /\ shownFrame = 2 /\ inflight = {1}

====
